---- MODULE Spec2Model ----
(***************************************************************************)
(* A model of the state machine of code/src: the Balances module           *)
(* (balances.rs) and the Runtime with its block execution loop (main.rs).  *)
(* The System module, the Proof-of-Existence module, the support types and *)
(* the dispatch generated by #[macros::runtime] are not among the source   *)
(* files; they are modelled from the specification's description of them.  *)
(***************************************************************************)
EXTENDS Integers, Sequences, FiniteSets, TLC

(* ---------------------------------------------------------------- bounds *)

\* Width of the Balance type in bits (u128 in main.rs and in the tests).
BalanceBits == 7

\* Longest block (number of extrinsics) the driver builds.
MaxExtrinsics == 2

\* Number of execute_block calls explored.
MaxBlocks == 2

MaxBalance == 2^BalanceBits - 1

(* ----------------------------------------------------------------- types *)

AccountId == {"alice", "bob", "charlie"}

Content == {"Hello, world!", "Hello, again!"}

\* Balances handed to set_balance and transfer by direct callers.
Amounts == {0, 20, 100, MaxBalance}

\* The accounts the driver seeds before the first block, and the balances it
\* gives them.
GenesisAccounts == {"alice", "bob"}

GenesisAmounts == {100, MaxBalance}

\* Option<T>: None is the empty sequence, Some(v) the sequence <<v>>.
None == << >>

Some(v) == <<v>>

\* BTreeMap::new()
EmptyMap == [k \in {} |-> 0]

\* BTreeMap::insert
Insert(m, k, v) == [x \in (DOMAIN m) \cup {k} |-> IF x = k THEN v ELSE m[x]]

\* BTreeMap::remove
Remove(m, k) == [x \in (DOMAIN m) \ {k} |-> m[x]]

(* ------------------------------------------------------- Balances module *)

\* CheckedSub on an unsigned Balance
checked_sub(a, b) == IF b <= a THEN Some(a - b) ELSE None

\* An addition that wraps modulo 2^BalanceBits and reports no overflow.
checked_add_wrapping(a, b) == Some((a + b) % (2 ^ BalanceBits))

\* CheckedAdd on a Balance of BalanceBits bits
checked_add(a, b) == IF a + b <= MaxBalance THEN Some(a + b) ELSE None

\* A set_balance that keeps an entry that exists.
set_balance_keep_existing(m, who, amount) ==
    IF who \in DOMAIN m THEN m ELSE Insert(m, who, amount)

set_balance(m, who, amount) == Insert(m, who, amount)

balance(m, who) == IF who \in DOMAIN m THEN m[who] ELSE 0

\* A transfer that credits the receiver and never debits the sender.
transfer_no_debit(m, from, to, amount) ==
    LET to_balance == balance(m, to)
        new_from_balance == checked_sub(balance(m, from), amount)
        new_to_balance == checked_add(to_balance, amount)
    IN  IF new_from_balance = None THEN [res |-> "Not enough funds.", balances |-> m]
        ELSE IF new_to_balance = None THEN [res |-> "Overflow", balances |-> m]
        ELSE [res |-> "Ok", balances |-> Insert(m, to, new_to_balance[1])]

\* A transfer that writes the sender's balance before the overflow check.
transfer_partial_write(m, from, to, amount) ==
    LET from_balance == balance(m, from)
        to_balance == balance(m, to)
        new_from_balance == checked_sub(from_balance, amount)
        new_to_balance == checked_add(to_balance, amount)
    IN  IF new_from_balance = None THEN [res |-> "Not enough funds.", balances |-> m]
        ELSE IF new_to_balance = None
             THEN [res |-> "Overflow", balances |-> Insert(m, from, new_from_balance[1])]
        ELSE [res |-> "Ok",
              balances |-> Insert(Insert(m, from, new_from_balance[1]), to, new_to_balance[1])]

\* A transfer that runs the overflow check before the underflow check.
transfer_add_first(m, from, to, amount) ==
    LET from_balance == balance(m, from)
        to_balance == balance(m, to)
        new_from_balance == checked_sub(from_balance, amount)
        new_to_balance == checked_add(to_balance, amount)
    IN  IF new_to_balance = None THEN [res |-> "Overflow", balances |-> m]
        ELSE IF new_from_balance = None THEN [res |-> "Not enough funds.", balances |-> m]
        ELSE [res |-> "Ok",
              balances |-> Insert(Insert(m, from, new_from_balance[1]), to, new_to_balance[1])]

\* BalancesModule::transfer: both balances are read, both checks run, and only
\* then the two inserts happen, the sender's first and the receiver's second.
transfer(m, from, to, amount) ==
    LET from_balance == balance(m, from)
        to_balance == balance(m, to)
        new_from_balance == checked_sub(from_balance, amount)
        new_to_balance == checked_add(to_balance, amount)
    IN  IF new_from_balance = None THEN [res |-> "Not enough funds.", balances |-> m]
        ELSE IF new_to_balance = None THEN [res |-> "Overflow", balances |-> m]
        ELSE [res |-> "Ok",
              balances |-> Insert(Insert(m, from, new_from_balance[1]), to, new_to_balance[1])]

(* --------------------------------------------------------- System module *)

\* SystemModule::inc_block_number
inc_block_number(n) == n + 1

\* SystemModule::nonce: the stored nonce, 0 for an account never seen
nonce_of(m, who) == IF who \in DOMAIN m THEN m[who] ELSE 0

(* ------------------------------------------------ Proof-of-Existence module *)

\* POEModule::get_claim
get_claim(m, claim) == IF claim \in DOMAIN m THEN Some(m[claim]) ELSE None

\* A create_claim that overwrites the owner of a claim that exists.
create_claim_overwrite(m, caller, claim) ==
    [res |-> "Ok", claims |-> Insert(m, claim, caller)]

\* A create_claim that hands a claim that exists to a caller who is not its owner.
create_claim_steal(m, caller, claim) ==
    IF get_claim(m, claim) = Some(caller)
    THEN [res |-> "ClaimAlreadyExists", claims |-> m]
    ELSE [res |-> "Ok", claims |-> Insert(m, claim, caller)]

\* POEModule::create_claim
create_claim(m, caller, claim) ==
    IF claim \in DOMAIN m THEN [res |-> "ClaimAlreadyExists", claims |-> m]
    ELSE [res |-> "Ok", claims |-> Insert(m, claim, caller)]

\* A revoke_claim that does not look at who calls.
revoke_claim_any_caller(m, caller, claim) ==
    IF get_claim(m, claim) = None THEN [res |-> "ClaimNotFound", claims |-> m]
    ELSE [res |-> "Ok", claims |-> Remove(m, claim)]

\* POEModule::revoke_claim
revoke_claim(m, caller, claim) ==
    IF get_claim(m, claim) = None THEN [res |-> "ClaimNotFound", claims |-> m]
    ELSE IF m[claim] # caller THEN [res |-> "NotClaimOwner", claims |-> m]
    ELSE [res |-> "Ok", claims |-> Remove(m, claim)]

(* ---------------------------------------------------------------- Runtime *)

\* RuntimeCall::balances(balances::Call::transfer { to, amount })
BalancesTransfer(to, amount) ==
    [pallet |-> "balances", fn |-> "transfer", to |-> to, amount |-> amount]

\* RuntimeCall::proof_of_existence(proof_of_existence::Call::create_claim { claim })
PoeCreateClaim(claim) ==
    [pallet |-> "proof_of_existence", fn |-> "create_claim", claim |-> claim]

\* RuntimeCall::proof_of_existence(proof_of_existence::Call::revoke_claim { claim })
PoeRevokeClaim(claim) ==
    [pallet |-> "proof_of_existence", fn |-> "revoke_claim", claim |-> claim]

\* support::Extrinsic { caller, call }
Extrinsic(caller, c) == [caller |-> caller, call |-> c]

\* The extrinsics the driver puts into blocks: those of main, and beside them a
\* self-transfer, a transfer by an account that holds only what it was sent, and
\* a revocation by an account that is not the owner.
Extrinsics ==
    { Extrinsic("alice", BalancesTransfer("bob", 20)),
      Extrinsic("alice", BalancesTransfer("charlie", 20)),
      Extrinsic("alice", PoeCreateClaim("Hello, world!")),
      Extrinsic("bob", PoeCreateClaim("Hello, world!")),
      Extrinsic("alice", PoeRevokeClaim("Hello, world!")),
      Extrinsic("alice", BalancesTransfer("alice", 20)),
      Extrinsic("bob", BalancesTransfer("alice", 20)),
      Extrinsic("bob", PoeRevokeClaim("Hello, world!")) }

\* Vec<Extrinsic> of at most n elements
RECURSIVE SeqsUpTo(_)
SeqsUpTo(n) ==
    IF n = 0 THEN { << >> }
    ELSE LET shorter == SeqsUpTo(n - 1)
         IN  shorter \cup { Append(s, e) : s \in { t \in shorter : Len(t) = n - 1 },
                                           e \in Extrinsics }

\* The extrinsics lists of the blocks the driver builds.
Blocks == SeqsUpTo(MaxExtrinsics)

\* The header numbers the driver gives a block at height h: the expected one,
\* and the current height again.
HeaderNumbers(h) == {h, h + 1}

\* support::Block { header: support::Header { block_number }, extrinsics }
Block(n, extrinsics) == [header |-> [block_number |-> n], extrinsics |-> extrinsics]

\* The Runtime struct; the balances and claims fields are the maps of the two
\* modules, block_number and nonce the fields of the System module.
RuntimeOf(bn, nn, bal, cl) ==
    [block_number |-> bn, nonce |-> nn, balances |-> bal, claims |-> cl]

\* A router that takes a transfer's receiver for its source account.
dispatch_from_to_swapped(rt, caller, c) ==
    IF c.pallet = "balances"
    THEN LET r == transfer(rt.balances, c.to, caller, c.amount)
         IN  [res |-> r.res, rt |-> [rt EXCEPT !.balances = r.balances]]
    ELSE IF c.fn = "create_claim"
    THEN LET r == create_claim(rt.claims, caller, c.claim)
         IN  [res |-> r.res, rt |-> [rt EXCEPT !.claims = r.claims]]
    ELSE LET r == revoke_claim(rt.claims, caller, c.claim)
         IN  [res |-> r.res, rt |-> [rt EXCEPT !.claims = r.claims]]

\* Runtime::dispatch, the router the runtime macro generates: the outer tag picks
\* the module, the inner tag its method; caller and payload are forwarded.
dispatch(rt, caller, c) ==
    IF c.pallet = "balances"
    THEN LET r == transfer(rt.balances, caller, c.to, c.amount)
         IN  [res |-> r.res, rt |-> [rt EXCEPT !.balances = r.balances]]
    ELSE IF c.fn = "create_claim"
    THEN LET r == create_claim(rt.claims, caller, c.claim)
         IN  [res |-> r.res, rt |-> [rt EXCEPT !.claims = r.claims]]
    ELSE LET r == revoke_claim(rt.claims, caller, c.claim)
         IN  [res |-> r.res, rt |-> [rt EXCEPT !.claims = r.claims]]

\* The record eprintln! writes for a failed extrinsic.
ErrorRecord(bn, i, e) == [block_number |-> bn, extrinsic_number |-> i, error |-> e]

\* A loop that gives up at the first extrinsic that fails.
RECURSIVE for_each_stop_on_error(_, _, _, _, _)
for_each_stop_on_error(rt, out, extrinsics, i, header_bn) ==
    IF i >= Len(extrinsics) THEN [rt |-> rt, stderr |-> out]
    ELSE LET x == extrinsics[i + 1]
             r == dispatch(rt, x.caller, x.call)
         IN  IF r.res = "Ok"
             THEN for_each_stop_on_error(r.rt, out, extrinsics, i + 1, header_bn)
             ELSE [rt |-> rt, stderr |-> Append(out, ErrorRecord(header_bn, i, r.res))]

\* A loop that takes the extrinsics from the last to the first.
RECURSIVE for_each_last_first(_, _, _, _, _)
for_each_last_first(rt, out, extrinsics, i, header_bn) ==
    IF i >= Len(extrinsics) THEN [rt |-> rt, stderr |-> out]
    ELSE LET x == extrinsics[Len(extrinsics) - i]
             r == dispatch(rt, x.caller, x.call)
             out2 == IF r.res = "Ok" THEN out
                     ELSE Append(out, ErrorRecord(header_bn, i, r.res))
         IN  for_each_last_first(r.rt, out2, extrinsics, i + 1, header_bn)

\* A loop that numbers the extrinsics from 1 in its error records.
RECURSIVE for_each_one_based(_, _, _, _, _)
for_each_one_based(rt, out, extrinsics, i, header_bn) ==
    IF i >= Len(extrinsics) THEN [rt |-> rt, stderr |-> out]
    ELSE LET x == extrinsics[i + 1]
             r == dispatch(rt, x.caller, x.call)
             out2 == IF r.res = "Ok" THEN out
                     ELSE Append(out, ErrorRecord(header_bn, i + 1, r.res))
         IN  for_each_one_based(r.rt, out2, extrinsics, i + 1, header_bn)

\* The for loop of execute_block from 0-based index i on: every extrinsic is
\* dispatched, an error is written to stderr and dropped.
RECURSIVE for_each(_, _, _, _, _)
for_each(rt, out, extrinsics, i, header_bn) ==
    IF i >= Len(extrinsics) THEN [rt |-> rt, stderr |-> out]
    ELSE LET x == extrinsics[i + 1]
             r == dispatch(rt, x.caller, x.call)
             out2 == IF r.res = "Ok" THEN out
                     ELSE Append(out, ErrorRecord(header_bn, i, r.res))
         IN  for_each(r.rt, out2, extrinsics, i + 1, header_bn)

BlockNumberMismatch == "block number does not match what is expected"

\* An execute_block that compares the header with the height it found.
execute_block_check_first(rt, b) ==
    LET rt1 == [rt EXCEPT !.block_number = inc_block_number(rt.block_number)]
    IN  IF b.header.block_number # rt.block_number
        THEN [res |-> BlockNumberMismatch, rt |-> rt1, stderr |-> << >>]
        ELSE LET r == for_each(rt1, << >>, b.extrinsics, 0, b.header.block_number)
             IN  [res |-> "Ok", rt |-> r.rt, stderr |-> r.stderr]

\* An execute_block that raises the height only for a block it accepts.
execute_block_inc_on_accept(rt, b) ==
    LET rt1 == [rt EXCEPT !.block_number = inc_block_number(rt.block_number)]
    IN  IF b.header.block_number # rt1.block_number
        THEN [res |-> BlockNumberMismatch, rt |-> rt, stderr |-> << >>]
        ELSE LET r == for_each(rt1, << >>, b.extrinsics, 0, b.header.block_number)
             IN  [res |-> "Ok", rt |-> r.rt, stderr |-> r.stderr]

\* An execute_block that applies the extrinsics before it looks at the header.
execute_block_apply_before_check(rt, b) ==
    LET rt1 == [rt EXCEPT !.block_number = inc_block_number(rt.block_number)]
        r == for_each(rt1, << >>, b.extrinsics, 0, b.header.block_number)
    IN  IF b.header.block_number # rt1.block_number
        THEN [res |-> BlockNumberMismatch, rt |-> r.rt, stderr |-> r.stderr]
        ELSE [res |-> "Ok", rt |-> r.rt, stderr |-> r.stderr]

\* Runtime::execute_block
execute_block(rt, b) ==
    LET rt1 == [rt EXCEPT !.block_number = inc_block_number(rt.block_number)]
    IN  IF b.header.block_number # rt1.block_number
        THEN [res |-> BlockNumberMismatch, rt |-> rt1, stderr |-> << >>]
        ELSE LET r == for_each(rt1, << >>, b.extrinsics, 0, b.header.block_number)
             IN  [res |-> "Ok", rt |-> r.rt, stderr |-> r.stderr]

(* ----------------------------------------------------------------- state *)

VARIABLES
    block_number,   \* SystemModule.block_number
    nonce,          \* SystemModule.nonce
    balances,       \* BalancesModule.balances
    claims,         \* POEModule.claims
    call,           \* the direct module call that has just returned, if any
    block,          \* the block handed to the execute_block call that has just returned
    ret,            \* what the call that has just returned gave back
    stderr,         \* the error records the call that has just returned wrote
    calls,          \* number of execute_block calls made so far
    journal         \* the statements main has run so far, with what they returned

vars == <<block_number, nonce, balances, claims, call, block, ret, stderr, calls,
          journal>>

runtime == RuntimeOf(block_number, nonce, balances, claims)

\* Runtime::new(): every module's new()
Init ==
    /\ block_number = 0
    /\ nonce = EmptyMap
    /\ balances = EmptyMap
    /\ claims = EmptyMap
    /\ call = None
    /\ block = None
    /\ ret = "none"
    /\ stderr = << >>
    /\ calls = 0
    /\ journal = << >>

(* --------------------------------------- direct calls on a BalancesModule *)

CallSetBalance(who, amount) ==
    /\ call = None
    /\ balances' = set_balance(balances, who, amount)
    /\ call' = Some([op |-> "set_balance", who |-> who, amount |-> amount,
                      old |-> balance(balances, who)])
    /\ ret' = "Ok"
    /\ UNCHANGED <<block_number, nonce, claims, block, stderr, calls, journal>>

CallTransfer(from, to, amount) ==
    /\ call = None
    /\ \E r \in {transfer(balances, from, to, amount)} :
           /\ balances' = r.balances
           /\ ret' = r.res
    /\ call' = Some([op |-> "transfer", from |-> from, to |-> to, amount |-> amount])
    /\ UNCHANGED <<block_number, nonce, claims, block, stderr, calls, journal>>

\* A read of a balance that stores the default it returns.
CallBalance_inserting(who) ==
    /\ call = None
    /\ call' = Some([op |-> "balance", who |-> who, value |-> balance(balances, who)])
    /\ balances' = IF who \in DOMAIN balances THEN balances
                   ELSE Insert(balances, who, 0)
    /\ ret' = "Ok"
    /\ UNCHANGED <<block_number, nonce, claims, block, stderr, calls, journal>>

\* A read of a balance; the value read is kept with the call.
CallBalance(who) ==
    /\ call = None
    /\ call' = Some([op |-> "balance", who |-> who, value |-> balance(balances, who)])
    /\ ret' = "Ok"
    /\ UNCHANGED <<block_number, nonce, balances, claims, block, stderr, calls, journal>>

\* The caller takes the result and goes on to its next statement.
Return ==
    /\ ret # "none"
    /\ call' = None
    /\ block' = None
    /\ ret' = "none"
    /\ stderr' = << >>
    /\ UNCHANGED <<block_number, nonce, balances, claims, calls, journal>>

NextLedger ==
    \/ \E who \in AccountId, amount \in Amounts : CallSetBalance(who, amount)
    \/ \E from \in AccountId, to \in AccountId, amount \in Amounts :
          CallTransfer(from, to, amount)
    \/ \E who \in AccountId : CallBalance(who)
    \/ Return

SpecLedger == Init /\ [][NextLedger]_vars

(* ------------------------------------------- direct calls on a POEModule *)

CallCreateClaim(caller, claim) ==
    /\ call = None
    /\ \E r \in {create_claim(claims, caller, claim)} :
           /\ claims' = r.claims
           /\ ret' = r.res
    /\ call' = Some([op |-> "create_claim", caller |-> caller, claim |-> claim])
    /\ UNCHANGED <<block_number, nonce, balances, block, stderr, calls, journal>>

CallRevokeClaim(caller, claim) ==
    /\ call = None
    /\ \E r \in {revoke_claim(claims, caller, claim)} :
           /\ claims' = r.claims
           /\ ret' = r.res
    /\ call' = Some([op |-> "revoke_claim", caller |-> caller, claim |-> claim])
    /\ UNCHANGED <<block_number, nonce, balances, block, stderr, calls, journal>>

NextPoe ==
    \/ \E caller \in AccountId, claim \in Content : CallCreateClaim(caller, claim)
    \/ \E caller \in AccountId, claim \in Content : CallRevokeClaim(caller, claim)
    \/ Return

SpecPoe == Init /\ [][NextPoe]_vars

(* ------------------------------------------------- the driver of a Runtime *)

\* main seeds balances with set_balance before it executes any block.
Genesis ==
    /\ calls = 0
    /\ ret = "none"
    /\ \E who \in GenesisAccounts, amount \in GenesisAmounts :
          balances' = set_balance(balances, who, amount)
    /\ UNCHANGED <<block_number, nonce, claims, call, block, ret, stderr, calls, journal>>

\* The driver builds a block, a header number and a list of extrinsics, and
\* hands it to execute_block.
ExecuteBlock ==
    /\ calls < MaxBlocks
    /\ ret = "none"
    /\ \E n \in HeaderNumbers(block_number), extrinsics \in Blocks :
          \E r \in {execute_block(runtime, Block(n, extrinsics))} :
              /\ block' = Some(Block(n, extrinsics))
              /\ block_number' = r.rt.block_number
              /\ nonce' = r.rt.nonce
              /\ balances' = r.rt.balances
              /\ claims' = r.rt.claims
              /\ ret' = r.res
              /\ stderr' = r.stderr
    /\ calls' = calls + 1
    /\ UNCHANGED <<call, journal>>

Next ==
    \/ Genesis
    \/ ExecuteBlock
    \/ Return

Spec == Init /\ [][Next]_vars

(* ------------------------------------------------------------ main itself *)

\* The extrinsics of block_1, block_2 and block_3 of main, in this order.
main_blocks ==
    << << Extrinsic("alice", BalancesTransfer("bob", 20)),
          Extrinsic("alice", BalancesTransfer("charlie", 20)) >>,
       << Extrinsic("alice", PoeCreateClaim("Hello, world!")),
          Extrinsic("bob", PoeCreateClaim("Hello, world!")) >>,
       << Extrinsic("alice", PoeRevokeClaim("Hello, world!")),
          Extrinsic("bob", PoeCreateClaim("Hello, world!")) >> >>

\* The lists of extrinsics a variant of main may put in a block: the three of
\* main, and every list of at most one extrinsic.
MainBlocks == {main_blocks[i] : i \in DOMAIN main_blocks} \cup SeqsUpTo(1)

\* The execute_block statements main has run so far.
Executed == SelectSeq(journal, LAMBDA e : e.op = "execute_block")

\* main seeds one balance before it executes its first block.
MainSetBalance ==
    /\ journal = << >>
    /\ \E who \in GenesisAccounts, amount \in GenesisAmounts :
          /\ balances' = set_balance(balances, who, amount)
          /\ journal' = Append(journal, [op |-> "set_balance", who |-> who,
                                         amount |-> amount])
    /\ UNCHANGED <<block_number, nonce, claims, call, block, ret, stderr, calls>>

\* main executes its blocks one after the other; expect("invalid block")
\* ends the program at the first execute_block that does not return Ok.
MainExecuteBlock ==
    /\ Len(Executed) < Len(main_blocks)
    /\ \A i \in DOMAIN Executed : Executed[i].res = "Ok"
    /\ \E n \in HeaderNumbers(block_number), extrinsics \in MainBlocks :
          \E r \in {execute_block(runtime, Block(n, extrinsics))} :
              /\ block_number' = r.rt.block_number
              /\ nonce' = r.rt.nonce
              /\ balances' = r.rt.balances
              /\ claims' = r.rt.claims
              /\ journal' = Append(journal, [op |-> "execute_block",
                                             block |-> Block(n, extrinsics),
                                             res |-> r.res,
                                             stderr |-> r.stderr])
    /\ UNCHANGED <<call, block, ret, stderr, calls>>

NextMain ==
    \/ MainSetBalance
    \/ MainExecuteBlock

SpecMain == Init /\ [][NextMain]_vars

(* ------------------------------------------------- what the claims speak of *)

\* The step is a direct transfer call returning.
TransferReturns == call' # None /\ call'[1].op = "transfer"

\* The step is a direct call of the named method returning.
CallReturns(op) == call' # None /\ call'[1].op = op

\* The state is one a direct call of the named method has just returned to.
CallReturned(op) == call # None /\ call[1].op = op

\* The state is one a direct transfer call has just returned to.
TransferReturned == call # None /\ call[1].op = "transfer"

\* The step is an execute_block call returning.
ExecuteReturns == ret = "none" /\ block' # None

\* The state is one an execute_block call has just returned to.
ExecuteReturned == block # None /\ ret # "none"

\* The sum of all stored balances.
RECURSIVE SumOver(_, _)
SumOver(m, keys) ==
    IF keys = {} THEN 0
    ELSE LET k == CHOOSE x \in keys : TRUE
         IN  m[k] + SumOver(m, keys \ {k})

TotalSupply(m) == SumOver(m, DOMAIN m)

\* The number of extrinsics of a list whose caller is who.
CallerCount(extrinsics, who) ==
    Cardinality({i \in 1..Len(extrinsics) : extrinsics[i].caller = who})

\* The runtime after the first k extrinsics of a list, each dispatched on the
\* state the one before it left, whether that one failed or not.
RECURSIVE StateAfter(_, _, _)
StateAfter(rt, extrinsics, k) ==
    IF k = 0 THEN rt
    ELSE dispatch(StateAfter(rt, extrinsics, k - 1),
                  extrinsics[k].caller, extrinsics[k].call).rt

\* What a list of extrinsics runs through: the state it starts from, then for
\* each extrinsic what its dispatch returned and the state it left.
RECURSIVE Trajectory(_, _, _)
Trajectory(rt, extrinsics, k) ==
    IF k = 0 THEN << [res |-> "none", rt |-> rt] >>
    ELSE LET t == Trajectory(rt, extrinsics, k - 1)
         IN  Append(t, dispatch(t[k].rt, extrinsics[k].caller, extrinsics[k].call))

\* The runtime after the first k extrinsics of a list, each handed to
\* execute_block in a block of its own with the header number that is due.
RECURSIVE OneAtATime(_, _, _)
OneAtATime(rt, extrinsics, k) ==
    IF k = 0 THEN rt
    ELSE LET prev == OneAtATime(rt, extrinsics, k - 1)
         IN  execute_block(prev, Block(prev.block_number + 1,
                                       << extrinsics[k] >>)).rt

\* The 0-based indices the error records on stderr name.
FailedIndices == {stderr[j].extrinsic_number : j \in 1..Len(stderr)}

(* ---------------------------------------------------------------- claims *)

\* C1: a transfer between two different accounts that returns Ok takes amt
\* from the sender's balance and adds amt to the receiver's, so the sum of the
\* two balances is the same before and after the call.
C1_TransferMovesAmount ==
    [][TransferReturns /\ ret' = "Ok" /\ call'[1].from # call'[1].to =>
        LET c == call'[1]
        IN  /\ balance(balances', c.from) = balance(balances, c.from) - c.amount
            /\ balance(balances', c.to) = balance(balances, c.to) + c.amount
            /\ balance(balances', c.from) + balance(balances', c.to)
                 = balance(balances, c.from) + balance(balances, c.to)]_vars

C1_Witness ==
    /\ TransferReturned
    /\ ret = "Ok"
    /\ call[1].from # call[1].to
    /\ call[1].amount > 0
    /\ balance(balances, call[1].from) > 0

\* C2: a self-transfer of an amount the account holds returns Ok and leaves
\* the account's balance as it was.
C2_SelfTransferKeepsBalance ==
    [][TransferReturns /\ call'[1].from = call'[1].to
         /\ call'[1].amount <= balance(balances, call'[1].from) =>
        /\ ret' = "Ok"
        /\ balance(balances', call'[1].from) = balance(balances, call'[1].from)]_vars

\* C3: once genesis is over, no execute_block call changes the sum of all
\* balances, whatever mix of extrinsics its block holds.
C3_SupplyIsConstant ==
    [][ExecuteReturns => TotalSupply(balances') = TotalSupply(balances)]_vars

\* C4: a transfer that returns an error, of either kind, leaves the whole
\* balance map as it was: no balance changes and no entry appears.
C4_FailedTransferWritesNothing ==
    [][TransferReturns /\ ret' # "Ok" => balances' = balances]_vars

C4_Witness ==
    /\ TransferReturned
    /\ ret = "Overflow"
    /\ call[1].from # call[1].to
    /\ call[1].to \in DOMAIN balances
    /\ call[1].from \in DOMAIN balances

\* C5: a transfer of more than the sender holds returns "Not enough funds."
\* and changes nothing, also when the receiver's balance would overflow.
C5_InsufficientFunds ==
    [][TransferReturns /\ call'[1].amount > balance(balances, call'[1].from) =>
        /\ ret' = "Not enough funds."
        /\ balances' = balances]_vars

C5_Witness ==
    /\ TransferReturned
    /\ ret = "Not enough funds."
    /\ call[1].from \notin DOMAIN balances
    /\ balance(balances, call[1].to) + call[1].amount > MaxBalance

\* C6: execute_block returns the block number mismatch error exactly when the
\* header's number differs from the height before the call plus 1, and Ok when
\* it equals it.
C6_MismatchIffHeaderWrong ==
    [][ExecuteReturns =>
        LET header_bn == block'[1].header.block_number
        IN  /\ (ret' = BlockNumberMismatch) <=> (header_bn # block_number + 1)
            /\ (header_bn = block_number + 1) => (ret' = "Ok")]_vars

C6_Witness ==
    /\ ExecuteReturned
    /\ ret = BlockNumberMismatch
    /\ block[1].header.block_number = 1
    /\ block_number = 2

\* C7: the height starts at 0 and every execute_block call, accepted or
\* rejected, raises it by 1: it always equals the number of calls made so far.
C7_HeightCountsCalls == block_number = calls

C7_Witness ==
    /\ calls = 2
    /\ block_number = 2
    /\ ret = BlockNumberMismatch
    /\ block[1].extrinsics # << >>

\* C8: every accepted block raises the nonce of each account by the number of
\* the block's extrinsics whose caller the account is, failed ones included, so
\* that between blocks the nonce counts the account's extrinsics so far.
C8_NonceCountsExtrinsics ==
    [][ExecuteReturns /\ ret' = "Ok" =>
        \A a \in AccountId :
            nonce_of(nonce', a)
              = nonce_of(nonce, a) + CallerCount(block'[1].extrinsics, a)]_vars

\* C9: a block whose header check passes returns Ok however many of its
\* extrinsics fail, and leaves the state that dispatching every one of them in
\* turn leaves: a failure neither ends the loop nor undoes what came before.
C9_FailuresAreIsolated ==
    [][ExecuteReturns /\ block'[1].header.block_number = block_number + 1 =>
        LET extrinsics == block'[1].extrinsics
            final == StateAfter(runtime, extrinsics, Len(extrinsics))
        IN  /\ ret' = "Ok"
            /\ balances' = final.balances
            /\ claims' = final.claims]_vars

C9_Witness ==
    /\ ExecuteReturned
    /\ ret = "Ok"
    /\ Len(block[1].extrinsics) = 2
    /\ FailedIndices = {0}
    /\ block[1].extrinsics[2].call.fn = "transfer"
    /\ balance(balances, block[1].extrinsics[2].call.to) >= 20

\* C10: a block rejected for its number applies none of its extrinsics: the
\* balances, the claims and the nonces are as before and only the height moved.
C10_RejectedBlockOnlyMovesHeight ==
    [][ExecuteReturns /\ ret' = BlockNumberMismatch =>
        /\ balances' = balances
        /\ claims' = claims
        /\ nonce' = nonce
        /\ block_number' = block_number + 1]_vars

C10_Witness ==
    /\ ExecuteReturned
    /\ ret = BlockNumberMismatch
    /\ block[1].extrinsics # << >>
    /\ claims # EmptyMap
    /\ \A i \in 1..Len(block[1].extrinsics) :
          dispatch(runtime, block[1].extrinsics[i].caller,
                   block[1].extrinsics[i].call).res = "Ok"

\* C11: create_claim on an absent key returns Ok and makes the caller the
\* owner; on a key that is present it returns ClaimAlreadyExists for every
\* caller, the owner included, and changes nothing; revoke_claim by the owner
\* returns Ok and leaves the key without an owner.
C11_ClaimLifecycle ==
    [][/\ CallReturns("create_claim") =>
            LET c == call'[1]
            IN  IF get_claim(claims, c.claim) = None
                THEN /\ ret' = "Ok"
                     /\ get_claim(claims', c.claim) = Some(c.caller)
                     /\ \A k \in Content \ {c.claim} :
                           get_claim(claims', k) = get_claim(claims, k)
                ELSE /\ ret' = "ClaimAlreadyExists"
                     /\ claims' = claims
       /\ (CallReturns("revoke_claim")
             /\ get_claim(claims, call'[1].claim) = Some(call'[1].caller)) =>
            /\ ret' = "Ok"
            /\ get_claim(claims', call'[1].claim) = None]_vars

C11_Witness ==
    /\ CallReturned("create_claim")
    /\ ret = "ClaimAlreadyExists"
    /\ get_claim(claims, call[1].claim) = Some(call[1].caller)

\* C12: revoke_claim returns ClaimNotFound for a key without an owner and
\* NotClaimOwner for a caller who is not the stored owner, and changes nothing
\* in both cases; a key loses its owner only in a revoke_claim by that owner.
C12_RevokeIsAuthorised ==
    [][/\ CallReturns("revoke_claim") =>
            LET c == call'[1]
                owner == get_claim(claims, c.claim)
            IN  /\ owner = None => (ret' = "ClaimNotFound" /\ claims' = claims)
                /\ (owner # None /\ owner # Some(c.caller)) =>
                      (ret' = "NotClaimOwner" /\ claims' = claims)
       /\ \A k \in (DOMAIN claims) \ (DOMAIN claims') :
            /\ CallReturns("revoke_claim")
            /\ call'[1].claim = k
            /\ call'[1].caller = claims[k]]_vars

C12_Witness ==
    /\ CallReturned("revoke_claim")
    /\ ret = "NotClaimOwner"
    /\ get_claim(claims, call[1].claim) # None
    /\ get_claim(claims, call[1].claim) # Some(call[1].caller)

\* The statements run so far are those of main: set_balance(alice, 100), then
\* block_1, block_2 and block_3 under the header numbers 1, 2 and 3.
MainRan ==
    /\ Len(journal) = Len(main_blocks) + 1
    /\ journal[1] = [op |-> "set_balance", who |-> "alice", amount |-> 100]
    /\ \A i \in DOMAIN main_blocks :
          /\ journal[i + 1].op = "execute_block"
          /\ journal[i + 1].block = Block(i, main_blocks[i])

\* C13: after the run of main all three execute_block calls have returned Ok,
\* the balances are alice 60, bob 20, charlie 20, bob owns "Hello, world!",
\* the block number is 3, the nonces are alice 4 and bob 2, and the one
\* extrinsic that failed is bob's create_claim in block 2, with
\* ClaimAlreadyExists.
C13_ReferenceRun ==
    MainRan =>
        /\ \A i \in DOMAIN main_blocks : journal[i + 1].res = "Ok"
        /\ balances = [a \in AccountId |->
                          IF a = "alice" THEN 60 ELSE 20]
        /\ get_claim(claims, "Hello, world!") = Some("bob")
        /\ block_number = 3
        /\ nonce_of(nonce, "alice") = 4
        /\ nonce_of(nonce, "bob") = 2
        /\ journal[2].stderr = << >>
        /\ journal[3].stderr = << ErrorRecord(2, 1, "ClaimAlreadyExists") >>
        /\ journal[4].stderr = << >>

\* C14: balance returns 0 for an account without an entry; neither balance nor
\* a transfer that fails adds an entry to the balance map; an entry appears
\* only in a set_balance or in a transfer that returns Ok, and none disappears.
C14_ZeroDefaultNoImplicitEntries ==
    [][/\ CallReturns("balance") =>
            /\ balances' = balances
            /\ call'[1].who \notin DOMAIN balances => call'[1].value = 0
       /\ (CallReturns("transfer") /\ ret' # "Ok") =>
            DOMAIN balances' = DOMAIN balances
       /\ DOMAIN balances' # DOMAIN balances =>
            /\ DOMAIN balances \subseteq DOMAIN balances'
            /\ \/ CallReturns("set_balance")
               \/ CallReturns("transfer") /\ ret' = "Ok"]_vars

C14_Witness ==
    /\ CallReturned("balance")
    /\ call[1].who \notin DOMAIN balances
    /\ call[1].value = 0
    /\ balances # EmptyMap

\* C15: after set_balance(a, X) the balance of a is X, whatever it was before,
\* and every other account has the entry and the balance it had.
C15_SetBalanceOverwrites ==
    [][CallReturns("set_balance") =>
          LET c == call'[1]
          IN  /\ balance(balances', c.who) = c.amount
              /\ c.who \in DOMAIN balances'
              /\ \A a \in AccountId \ {c.who} :
                    /\ balance(balances', a) = balance(balances, a)
                    /\ a \in DOMAIN balances' <=> a \in DOMAIN balances]_vars

C15_Witness ==
    /\ CallReturned("set_balance")
    /\ call[1].old > call[1].amount
    /\ call[1].amount > 0
    /\ balance(balances, call[1].who) = call[1].amount
    /\ \E a \in AccountId \ {call[1].who} : balance(balances, a) > 0

\* C16: a transfer of an amount the sender holds that would lift the receiver
\* above the largest Balance returns Overflow and writes nothing; a transfer
\* that returns Ok credits the receiver the exact sum, and no stored balance
\* is ever above the largest Balance.
C16_OverflowIsRefused ==
    [][/\ CallReturns("transfer") =>
            LET c == call'[1]
            IN  /\ (/\ c.amount <= balance(balances, c.from)
                    /\ balance(balances, c.to) + c.amount > MaxBalance) =>
                       (ret' = "Overflow" /\ balances' = balances)
                /\ ret' = "Ok" =>
                       balances'[c.to] = balance(balances, c.to) + c.amount
       /\ \A a \in DOMAIN balances' : balances'[a] <= MaxBalance]_vars

C16_Witness ==
    /\ TransferReturned
    /\ ret = "Overflow"
    /\ call[1].amount < MaxBalance
    /\ call[1].amount <= balance(balances, call[1].from)
    /\ balance(balances, call[1].to) + call[1].amount > MaxBalance

\* C17: the state an accepted block leaves is the state its extrinsics leave
\* when they are executed one at a time in index order, each in a block of its
\* own on the state the one before it left; an extrinsic sees what the
\* extrinsics before it in the same block have written.
C17_SequentialVisibility ==
    [][ExecuteReturns /\ ret' = "Ok" =>
        \A final \in {OneAtATime(runtime, block'[1].extrinsics,
                                 Len(block'[1].extrinsics))} :
            /\ balances' = final.balances
            /\ claims' = final.claims
            /\ nonce' = final.nonce]_vars

C17_Witness ==
    /\ ExecuteReturned
    /\ ret = "Ok"
    /\ block[1].extrinsics = << Extrinsic("alice", BalancesTransfer("bob", 20)),
                                Extrinsic("bob", BalancesTransfer("alice", 20)) >>
    /\ stderr = << >>
    /\ balance(balances, "bob") = 0

\* C18: the error records an accepted block writes are one for each extrinsic
\* that fails and none for one that succeeds, in the order of the extrinsics,
\* each with the block's number, the extrinsic's 0-based index and its error.
C18_EveryFailureIsReported ==
    [][ExecuteReturns /\ ret' = "Ok" =>
        \A t \in {Trajectory(runtime, block'[1].extrinsics,
                             Len(block'[1].extrinsics))} :
            /\ \A j \in 1..Len(stderr') :
                  /\ stderr'[j].block_number = block'[1].header.block_number
                  /\ stderr'[j].extrinsic_number \in 0..(Len(t) - 2)
                  /\ stderr'[j].error # "Ok"
                  /\ stderr'[j].error = t[stderr'[j].extrinsic_number + 2].res
            /\ \A i, j \in 1..Len(stderr') :
                  i < j => stderr'[i].extrinsic_number < stderr'[j].extrinsic_number
            /\ \A k \in 2..Len(t) :
                  t[k].res # "Ok" =>
                      \E j \in 1..Len(stderr') : stderr'[j].extrinsic_number = k - 2]_vars

C18_Witness ==
    /\ ExecuteReturned
    /\ ret = "Ok"
    /\ Len(block[1].extrinsics) = 2
    /\ FailedIndices = {1}
    /\ stderr[1].error = "ClaimAlreadyExists"

\* C19: no extrinsic hands a claim from one owner to another: from one
\* extrinsic of a block to the next a key that keeps an owner keeps the same
\* one, and a key loses its owner only in a revoke_claim by that owner that
\* returns Ok; no other step of the runtime touches the claims.  So between a
\* state where o1 owns a key and a later one where o2 # o1 owns it, o1 has
\* revoked it.
C19_OwnerChangesThroughRevoke ==
    [][IF ExecuteReturns /\ ret' = "Ok"
       THEN \A extrinsics \in {block'[1].extrinsics} :
            \A t \in {Trajectory(runtime, extrinsics, Len(extrinsics))} :
                /\ claims' = t[Len(t)].rt.claims
                /\ \A k \in 1..Len(extrinsics) : \A c \in DOMAIN t[k].rt.claims :
                      IF c \in DOMAIN t[k + 1].rt.claims
                      THEN t[k + 1].rt.claims[c] = t[k].rt.claims[c]
                      ELSE /\ extrinsics[k].call = PoeRevokeClaim(c)
                           /\ extrinsics[k].caller = t[k].rt.claims[c]
                           /\ t[k + 1].res = "Ok"
       ELSE claims' = claims]_vars

C19_Witness ==
    /\ ExecuteReturned
    /\ ret = "Ok"
    /\ block[1].extrinsics = << Extrinsic("alice", PoeRevokeClaim("Hello, world!")),
                                Extrinsic("bob", PoeCreateClaim("Hello, world!")) >>
    /\ stderr = << >>
    /\ get_claim(claims, "Hello, world!") = Some("bob")

\* C20: an extrinsic lowers no balance but its caller's: from one extrinsic of
\* a block to the next an account whose balance is lower is the caller of that
\* extrinsic, and an account whose balance is lower after a block is the
\* caller of one of its extrinsics.
C20_OnlyCallerIsDebited ==
    [][ExecuteReturns /\ ret' = "Ok" =>
        \A extrinsics \in {block'[1].extrinsics} :
        \A t \in {Trajectory(runtime, extrinsics, Len(extrinsics))} :
            /\ balances' = t[Len(t)].rt.balances
            /\ \A k \in 1..Len(extrinsics) : \A a \in DOMAIN t[k].rt.balances :
                  balance(t[k + 1].rt.balances, a) < t[k].rt.balances[a] =>
                      a = extrinsics[k].caller
            /\ \A a \in DOMAIN balances :
                  balance(balances', a) < balances[a] =>
                      CallerCount(extrinsics, a) > 0]_vars

C20_Witness ==
    /\ ExecuteReturned
    /\ ret = "Ok"
    /\ block[1].extrinsics = << Extrinsic("alice", BalancesTransfer("charlie", 20)) >>
    /\ stderr = << >>
    /\ balance(balances, "alice") = 80
    /\ balance(balances, "charlie") = 20

====
